---- MODULE Spec2Model ----
(***************************************************************************)
(* Linux mount support of lsof (src/lib/dialects/linux/dmnt.c): the octal  *)
(* escape conversion, the mount supplement table (getmntdev, hash_mnt) and *)
(* the mount table (readmnt, clean_mnt).                                   *)
(*                                                                         *)
(* A C string is a sequence of character codes (0..255, the terminator not *)
(* included).  A NULL string pointer is NULLSTR.                           *)
(***************************************************************************)
EXTENDS Integers, Sequences, FiniteSets, TLC

\* ------------------------------------------------------------------------
\* Characters and strings
\* ------------------------------------------------------------------------

\* ASCII codes of the characters the model writes down.
Ord ==
  ("\\" :> 92) @@ ("/" :> 47) @@ (" " :> 32) @@ (":" :> 58) @@
  ("(" :> 40) @@ ("0" :> 48) @@ ("1" :> 49) @@ ("2" :> 50) @@
  ("3" :> 51) @@ ("4" :> 52) @@ ("5" :> 53) @@ ("6" :> 54) @@
  ("7" :> 55) @@ ("8" :> 56) @@ ("9" :> 57) @@ ("a" :> 97) @@
  ("b" :> 98) @@ ("c" :> 99) @@ ("d" :> 100) @@ ("e" :> 101) @@
  ("f" :> 102) @@ ("g" :> 103) @@ ("h" :> 104) @@ ("i" :> 105) @@
  ("k" :> 107) @@ ("l" :> 108) @@ ("m" :> 109) @@ ("n" :> 110) @@
  ("o" :> 111) @@ ("p" :> 112) @@ ("q" :> 113) @@ ("s" :> 115) @@
  ("t" :> 116) @@ ("u" :> 117) @@ ("x" :> 120) @@ ("A" :> 65) @@
  ("E" :> 69) @@ ("F" :> 70) @@ ("M" :> 77) @@ ("N" :> 78) @@
  ("Q" :> 81) @@ ("S" :> 83) @@ ("U" :> 85) @@ ("X" :> 88) @@ ("Z" :> 90) @@
  ("?" :> 63) @@ ("*" :> 42) @@ ("C" :> 67) @@ ("D" :> 68) @@ ("G" :> 71) @@
  ("I" :> 73) @@ ("O" :> 79) @@ ("P" :> 80) @@ ("R" :> 82) @@ ("T" :> 84) @@
  ("V" :> 86)

\* The C string written as a tuple of one-character strings.
Str(t) == [i \in 1..Len(t) |-> Ord[t[i]]]

\* The string literals of dmnt.c.
S_root == Str(<<"/">>)
S_pid == Str(<<"(", "p", "i", "d">>)
S_autofs == Str(<<"a", "u", "t", "o", "f", "s">>)
S_pipefs == Str(<<"p", "i", "p", "e", "f", "s">>)
S_sockfs == Str(<<"s", "o", "c", "k", "f", "s">>)
S_nfs == Str(<<"n", "f", "s">>)
S_nfs3 == Str(<<"n", "f", "s", "3">>)
S_nfs4 == Str(<<"n", "f", "s", "4">>)
S_mqueue == Str(<<"m", "q", "u", "e", "u", "e">>)

\* A NULL char pointer (no string at all; distinct from the empty string).
NULLSTR == <<-1>>

\* The string a char buffer holds: the bytes before the first zero byte.
RECURSIVE CStr(_)
CStr(buf) ==
  IF buf = <<>> \/ Head(buf) = 0 THEN <<>> ELSE <<Head(buf)>> \o CStr(Tail(buf))

\* ------------------------------------------------------------------------
\* convert_octal_escaped()
\* ------------------------------------------------------------------------

\* A character that is not in '0'..'7' ends the scan of an escape.
IsOctal_digit9(ch) == ch >= Ord["0"] /\ ch <= Ord["9"]
IsOctal(ch) == ch >= Ord["0"] /\ ch <= Ord["7"]

\* The test that the three characters after the escape lie in the string.
EscapeFits_short(orig_idx, orig_len) == (orig_idx + 4) < orig_len
EscapeFits(orig_idx, orig_len) == (orig_idx + 3) < orig_len

\* The inner loop: temp_idx and temp_ch when it stops (orig_idx is 0-based).
RECURSIVE OctScan(_, _, _, _)
OctScan(orig_str, orig_idx, temp_idx, temp_ch) ==
  IF temp_idx < 4 /\ orig_idx + temp_idx < Len(orig_str)
    THEN LET ch == orig_str[orig_idx + temp_idx + 1]
         IN  IF ~IsOctal(ch)
               THEN <<temp_idx, temp_ch>>
               ELSE OctScan(orig_str, orig_idx, temp_idx + 1,
                            temp_ch * 8 + (ch - Ord["0"]))
    ELSE <<temp_idx, temp_ch>>

\* The character an assembled escape stands for.
EscapeChar_raw(temp_ch) == temp_ch
EscapeChar(temp_ch) == temp_ch % 256

\* The copy loop from position orig_idx on; cvt is the copy made so far.
RECURSIVE CopyLoop(_, _, _)
CopyLoop(orig_str, orig_idx, cvt) ==
  IF orig_idx >= Len(orig_str)
    THEN cvt
    ELSE LET cur_ch == orig_str[orig_idx + 1]
             scan == IF cur_ch = Ord["\\"] /\ EscapeFits(orig_idx, Len(orig_str))
                       THEN OctScan(orig_str, orig_idx, 1, 0)
                       ELSE <<0, 0>>
         IN  IF scan[1] = 4
               THEN CopyLoop(orig_str, orig_idx + 4,
                             Append(cvt, EscapeChar(scan[2])))
               ELSE CopyLoop(orig_str, orig_idx + 1, Append(cvt, cur_ch))

\* The bytes convert_octal_escaped() writes before the terminator; NULLSTR
\* for an empty original.
convert_octal_escaped(orig_str) ==
  IF Len(orig_str) = 0 THEN NULLSTR ELSE CopyLoop(orig_str, 0, <<>>)

\* ------------------------------------------------------------------------
\* hash_mnt()
\* ------------------------------------------------------------------------

\* Mount supplement hash bucket count.
HASHMNT == 128

\* Bitwise exclusive or of two naturals.
RECURSIVE Xor(_, _)
Xor(a, b) ==
  IF a = 0 THEN b
  ELSE IF b = 0 THEN a
  ELSE ((a + b) % 2) + 2 * Xor(a \div 2, b \div 2)

RECURSIVE Pow2(_)
Pow2(n) == IF n = 0 THEN 1 ELSE 2 * Pow2(n - 1)

\* The for loop of hash_mnt() from index i on (0-based), h so far.
RECURSIVE HashLoop(_, _, _)
HashLoop(dir_name, i, h) ==
  IF i >= Len(dir_name) - 1
    THEN h
    ELSE HashLoop(dir_name, i + 1,
                  Xor(h, (dir_name[i + 1] * dir_name[i + 2]) * Pow2((i * 3) % 13)))

hash_mnt(dir_name) ==
  IF Len(dir_name) = 0 THEN 0
  ELSE IF Len(dir_name) = 1 THEN dir_name[1] % HASHMNT
  ELSE HashLoop(dir_name, 0, 0) % HASHMNT

\* ------------------------------------------------------------------------
\* getmntdev()
\* ------------------------------------------------------------------------

\* A stat(2) status (the SB_* values) is the set of the stat fields known.
SB_DEV == "SB_DEV"
SB_INO == "SB_INO"
SB_MODE == "SB_MODE"
SB_RDEV == "SB_RDEV"
SB_ALL == {SB_DEV, SB_INO, SB_MODE, "SB_NLINK", SB_RDEV, "SB_SIZE"}

\* A NULL bucket array; an allocated one maps 0..HASHMNT-1 to its chains,
\* each chain a sequence of mntsup entries, head first.
NoHash == <<>>
EmptyHash == [h \in 0..(HASHMNT - 1) |-> <<>>]

\* strchr(buf, ch): the 0-based index of the first ch in buf, -1 for NULL.
RECURSIVE StrChrFrom(_, _, _)
StrChrFrom(buf, ch, i) ==
  IF i >= Len(buf) THEN -1
  ELSE IF buf[i + 1] = ch THEN i
  ELSE StrChrFrom(buf, ch, i + 1)
strchr(buf, ch) == StrChrFrom(buf, ch, 0)

\* The character at 0-based index i of a C string (0 at and after its end).
CharAt(buf, i) == IF i < Len(buf) THEN buf[i + 1] ELSE 0

isdigit(ch) == ch >= Ord["0"] /\ ch <= Ord["9"]
isupper(ch) == ch >= Ord["A"] /\ ch <= Ord["Z"]
tolower(ch) == IF isupper(ch) THEN ch + 32 ELSE ch
isxdigit(ch) ==
  isdigit(ch) \/ (tolower(ch) >= Ord["a"] /\ tolower(ch) <= Ord["f"])

\* The device assembly loop from 0-based index i on: <<dev, index where the
\* loop stopped>>.
RECURSIVE DevLoop(_, _, _)
DevLoop(buf, i, dev) ==
  IF CharAt(buf, i) = 0 \/ ~isxdigit(CharAt(buf, i))
    THEN <<dev, i>>
    ELSE DevLoop(buf, i + 1,
                 IF isdigit(CharAt(buf, i))
                   THEN dev * 16 + CharAt(buf, i) - Ord["0"]
                   ELSE dev * 16 + tolower(CharAt(buf, i)) - Ord["a"] + 10)

\* "The device number couldn't be assembled": the loop stopped before the
\* end of the line.
DevIllegal_never(buf, stop) == FALSE
DevIllegal(buf, stop) == CharAt(buf, stop) # 0

\* The validation of one supplement line: the error found ("ok" for none),
\* with the path, its length and the device of a valid line.
ParseSupLine(buf) ==
  LET dp == strchr(buf, Ord[" "])
      dl == DevLoop(buf, dp + 3, 0)
  IN  IF CharAt(buf, 0) # Ord["/"]
        THEN [err |-> "no path", path |-> <<>>, sz |-> 0, dev |-> 0]
      ELSE IF dp = -1 \/ CharAt(buf, dp + 1) # Ord["0"]
                      \/ CharAt(buf, dp + 2) # Ord["x"]
        THEN [err |-> "no device", path |-> <<>>, sz |-> 0, dev |-> 0]
      ELSE IF DevIllegal(buf, dl[2])
        THEN [err |-> "illegal device", path |-> <<>>, sz |-> 0, dev |-> 0]
      ELSE [err |-> "ok", path |-> SubSeq(buf, 1, dp), sz |-> dp, dev |-> dl[1]]

\* The search of a chain made while the file is read: the length compared
\* is the dir_name_len argument of getmntdev().
RECURSIVE BuildFind(_, _, _)
BuildFind(chain, path, dir_name_len) ==
  IF chain = <<>> THEN <<>>
  ELSE IF Head(chain).dir_name_len = dir_name_len /\ Head(chain).dir_name = path
    THEN <<Head(chain)>>
  ELSE BuildFind(Tail(chain), path, dir_name_len)

\* What the loop does with a valid line p (line number ln) whose path was
\* searched for in its chain of the bucket array tbl with result mp: the
\* bucket array and the error flag after the line.
SupLineAdd(tbl, err, p, ln, mp) ==
  IF mp # <<>>
    THEN [hash |-> tbl, err |-> IF mp[1].dev # p.dev THEN 1 ELSE err]
    ELSE [hash |-> [tbl EXCEPT ![hash_mnt(p.path)] =
                      <<[dir_name |-> p.path, dir_name_len |-> p.sz,
                         dev |-> p.dev, ln |-> ln]>> \o @],
          err |-> err]

\* One line of the supplement file: p is the parsed line, tbl the bucket
\* array, allocated if it was not.
SupLine(hash, tbl, err, p, ln, dir_name_len) ==
  IF p.err # "ok"
    THEN [hash |-> hash, err |-> 1]
    ELSE SupLineAdd(tbl, err, p, ln,
                    BuildFind(tbl[hash_mnt(p.path)], p.path, dir_name_len))

\* The while loop over the lines of the supplement file: st is the bucket
\* array and the error flag after ln lines.
RECURSIVE ReadSupLines(_, _, _, _)
ReadSupLines(lines, ln, st, dir_name_len) ==
  IF ln >= Len(lines)
    THEN st
    ELSE ReadSupLines(lines, ln + 1,
                      SupLine(st.hash,
                              IF st.hash = NoHash THEN EmptyHash ELSE st.hash,
                              st.err, ParseSupLine(lines[ln + 1]), ln + 1,
                              dir_name_len),
                      dir_name_len)

\* The final search of a chain for the directory looked up.
RECURSIVE LookupFind(_, _, _)
LookupFind(chain, dir_name, dir_name_len) ==
  IF chain = <<>> THEN <<>>
  ELSE IF dir_name_len = Head(chain).dir_name_len /\ dir_name = Head(chain).dir_name
    THEN <<Head(chain)>>
  ELSE LookupFind(Tail(chain), dir_name, dir_name_len)

\* The results of a getmntdev() call that finds nothing: the bucket array
\* and error flag left, the return value, whether the stat buffer was
\* written and the device put in it, the status *ss, whether the supplement
\* file was read, and whether the bucket search indexed a NULL bucket array.
GmNone(hash, err, ss, read) ==
  [hash |-> hash, err |-> err, ret |-> 0, set |-> FALSE, dev |-> 0,
   ss |-> ss, read |-> read, nullidx |-> FALSE]

\* The results when the bucket search found mp.
GmFound(hash, mp, ss, read) ==
  [hash |-> hash, err |-> 0, ret |-> 1, set |-> TRUE, dev |-> mp.dev,
   ss |-> ss \cup {SB_DEV}, read |-> read, nullidx |-> FALSE]

\* The end of getmntdev(): mp is the result of the bucket search.
GmSearched(hash, mp, ss, read) ==
  IF mp # <<>> THEN GmFound(hash, mp[1], ss, read)
  ELSE GmNone(hash, 0, ss, read)

\* getmntdev() after the supplement file was read (read = TRUE) or found
\* read already: st is the bucket array and the error flag.
GmLookup(st, dir_name, dir_name_len, ss, read) ==
  IF st.err = 1 THEN GmNone(NoHash, 1, ss, read)
  ELSE IF st.hash = NoHash
    THEN [GmNone(NoHash, 0, ss, read) EXCEPT !.nullidx = TRUE]
  ELSE GmSearched(st.hash,
                  LookupFind(st.hash[hash_mnt(dir_name)], dir_name, dir_name_len),
                  ss, read)

\* getmntdev(ctx, dir_name, dir_name_len, s, ss) called with bucket array
\* hash and error flag err, the supplement configured by MntSup_ and
\* MntSupP_ (FALSE for a NULL path) and the file being sup (readable or not,
\* with its lines).
getmntdev(hash, err, MntSup_, MntSupP_, sup, dir_name, dir_name_len, ss) ==
  IF err = 1 THEN GmNone(hash, err, ss, FALSE)
  ELSE IF hash # NoHash
    THEN GmLookup([hash |-> hash, err |-> 0], dir_name, dir_name_len, ss, FALSE)
  ELSE IF MntSup_ # 2 \/ ~MntSupP_ THEN GmNone(hash, err, ss, FALSE)
  ELSE IF ~sup.readable THEN GmNone(hash, 1, ss, FALSE)
  ELSE GmLookup(ReadSupLines(sup.lines, 0, [hash |-> NoHash, err |-> 0],
                             dir_name_len),
                dir_name, dir_name_len, ss, TRUE)

\* ------------------------------------------------------------------------
\* String comparisons used by readmnt()
\* ------------------------------------------------------------------------

ToLowerStr(str) == [i \in 1..Len(str) |-> tolower(str[i])]

\* strcasecmp(a, b) == 0
strcaseeq(a, b) == ToLowerStr(a) = ToLowerStr(b)

\* strncasecmp(a, b, n) == 0 for a string b of n characters: the first n
\* characters of a, as far as a reaches, are those of b in any letter case.
strncaseeq(a, b, n) ==
  Len(a) >= n /\ ToLowerStr(SubSeq(a, 1, n)) = ToLowerStr(b)

\* The automounter test: the first colon of the device name is followed by
\* "(pid".
IsAutomount(fp0) ==
  LET cp == strchr(fp0, Ord[":"])
  IN  cp # -1 /\ strncaseeq(SubSeq(fp0, cp + 2, Len(fp0)),
                            S_pid, 4)

\* The file system types readmnt() ignores.
IsIgnoredFs_exact(fp2) == fp2 \in {S_autofs, S_pipefs, S_sockfs}
IsIgnoredFs(fp2) ==
  \/ strcaseeq(fp2, S_autofs)
  \/ strcaseeq(fp2, S_pipefs)
  \/ strcaseeq(fp2, S_sockfs)

\* nfs == 0: the type is "nfs", "nfs3" or "nfs4", compared by strcasecmp().
IsNfsName(fp2) ==
  \/ strcaseeq(fp2, S_nfs)
  \/ strcaseeq(fp2, S_nfs3)
  \/ strcaseeq(fp2, S_nfs4)

\* mqueue == 0: the type is "mqueue", compared by strcmp().
IsMqueueName_anycase(fp2) == strcaseeq(fp2, S_mqueue)
IsMqueueName(fp2) == fp2 = S_mqueue

\* Node types of a mount entry.
N_REGLR == "N_REGLR"
N_NFS == "N_NFS"
N_MQUEUE == "N_MQUEUE"

\* The type given to the entry of a line with file system type fp2.
MountType(fp2) ==
  IF IsNfsName(fp2) THEN N_NFS
  ELSE IF IsMqueueName(fp2) THEN N_MQUEUE
  ELSE N_REGLR

\* The -e file system list is searched for the unresolved mounted-on path:
\* <<ignrdl, ignstat>>.
RECURSIVE EfsysLookup(_, _)
EfsysLookup_norl(list, dn) ==
  IF \E i \in 1..Len(list) : list[i].path = dn THEN <<0, 1>> ELSE <<0, 0>>
EfsysLookup(list, dn) ==
  IF list = <<>> THEN <<0, 0>>
  ELSE IF dn = Head(list).path THEN <<Head(list).rdlnk, 1>>
  ELSE EfsysLookup(Tail(list), dn)

\* The search of the mount table for a directory: the entry found (in a
\* one-element sequence) or <<>>.
RECURSIVE FindDir(_, _, _)
FindDir(list, dn, dnl) ==
  IF list = <<>> THEN <<>>
  ELSE IF dnl = Head(list).dirl /\ dn = Head(list).dir THEN <<Head(list)>>
  ELSE FindDir(Tail(list), dn, dnl)

\* What is done with a line whose directory is already in the table as mp:
\* TRUE when the line is ignored.
DupIgnored(dn, mp, nfsname) ==
  \/ dn # S_root
  \/ mp.ty = N_NFS
  \/ ~nfsname

\* ------------------------------------------------------------------------
\* State
\* ------------------------------------------------------------------------

VARIABLES
  Lmi,              \* local mount info: the entries from the head on
  Lmist,            \* Lmi status: 1 when the table has been built
  HasNFS,           \* 0, 1 (an NFS mount was seen) or 2 (one is in the table)
  MqueueDev,        \* device of the last mqueue entry recorded
  MSHash,           \* mount supplement hash buckets (NoHash for NULL)
  mount_sup_error,  \* 1 once the supplement file was found unusable
  MntSup,           \* mount supplement state: 0 off, 1 print, 2 lookup
  MntSupP,          \* a mount supplement path is set
  supfile,          \* the supplement file: readable or not, and its lines
  Efsysl,           \* the -e file system list: entries of path and rdlnk
  pc,               \* "idle", "reading" inside the while loop of readmnt(),
                    \* "oct"/"octdone" and "sup" for the functions called alone
  mp,               \* readmnt()'s entry pointer between lines: an id, 0 for NULL
  nline,            \* lines read from the mount source so far, by all builds
  released,         \* ids of the entries freed while linked in Lmi
  crashed,          \* the process was ended by a fault
  built,            \* the list the call that completed the build returned
  opens,            \* times the mount source has been opened
  last,             \* what the last step did
  orig_str,         \* convert_octal_escaped(): the original string
  cvt_str,          \* convert_octal_escaped(): the converted string
  gm,               \* the last direct getmntdev() call and its results
  sup_reads,        \* times the supplement file has been read
  frozen,           \* the context has been frozen by lsof_freeze()
  selection,        \* the predicate store, in the order of registration
  logic_and,        \* the selections are ANDed (lsof_logic_and() was called)
  call,             \* the last library call: its name, return and result
  ngather,          \* lsof_gather() passes run so far
  inet,             \* a port range selected and the port compared with it
  proto             \* printiproto(): its argument, its static m, Lf->iproto

vars ==
  <<Lmi, Lmist, HasNFS, MqueueDev, MSHash, mount_sup_error, MntSup, MntSupP,
    supfile, Efsysl, pc, mp, nline, released, crashed, built, opens,
    last, orig_str, cvt_str, gm, sup_reads,
    frozen, selection, logic_and, call, ngather, inet, proto>>

\* ------------------------------------------------------------------------
\* Bounds and inputs
\* ------------------------------------------------------------------------

\* Lines read from the mount source, by all builds together.
MaxLines == 2
\* Times the mount source is opened.
MaxBuilds == 2
\* Times the supplement file is read.
MaxSupReads == 2
\* Lines of a supplement file.
MaxSupLines == 2
\* Length of the strings convert_octal_escaped() is applied to.
MaxLen == 5
\* getmntdev() calls made directly on a context.
MaxCalls == 3

S_a == Str(<<"/", "a">>)
S_a_esc == Str(<<"/", "\\", "1", "4", "1">>)
S_l == Str(<<"/", "l">>)
S_e == Str(<<"/", "e">>)
S_x == Str(<<"/", "x">>)
S_rel == Str(<<"a">>)
S_d == Str(<<"d">>)
S_absd == Str(<<"/", "d">>)
S_automount == Str(<<"h", ":", "(", "p", "i", "d">>)
S_colons == Str(<<"h", ":", "x", ":", "(", "p", "i", "d">>)
T_ext4 == Str(<<"e", "x", "t", "4">>)
T_NFS4 == Str(<<"N", "F", "S", "4">>)
T_MQUEUE == Str(<<"M", "Q", "U", "E", "U", "E">>)
T_AutoFS == Str(<<"A", "u", "t", "o", "F", "S">>)
T_autofsx == Str(<<"a", "u", "t", "o", "f", "s", "x">>)

\* Mounted-on paths of the mount lines: /a also written with an escape, /l
\* and /x symbolic links to /a, /e and /x on the -e list, and a path that is
\* not absolute.
MntPoints == {S_root, S_a, S_a_esc, S_l, S_e, S_x, S_rel}

\* The lines fgets() can deliver: nf is the field count get_fields() finds.
MountLines ==
  { [nf |-> 3, dev |-> S_d, mnt |-> m, ty |-> T_ext4] : m \in MntPoints }
  \cup
  { [nf |-> 3, dev |-> S_d, mnt |-> m, ty |-> t] :
      m \in {S_root, S_a}, t \in {S_nfs, S_mqueue} }
  \cup
  { [nf |-> 3, dev |-> S_d, mnt |-> S_a, ty |-> t] :
      t \in {T_NFS4, S_nfs3, T_MQUEUE, T_AutoFS, T_autofsx, S_pipefs, S_sockfs} }
  \cup
  { [nf |-> 3, dev |-> d, mnt |-> S_a, ty |-> T_ext4] :
      d \in {S_absd, S_automount, S_colons} }
  \cup
  { [nf |-> 2, dev |-> S_d, mnt |-> S_a, ty |-> <<>>] }

\* The outcomes of the calls a pass makes: Readlink() and statsafely() of
\* the directory (rlok, statok), Readlink() and statsafely() of the
\* mounted-on device name (fsok), and what an indexing of a NULL bucket
\* array does (ub).
Envs ==
  { e \in [rlok : BOOLEAN, statok : BOOLEAN, fsok : BOOLEAN,
           ub : {"fault", "notfound", "found"}] :
      /\ e.statok => e.ub = "notfound"
      /\ ~e.rlok => (e.statok /\ e.fsok) }

\* The calls of a pass all succeeding.
AllOk == [rlok |-> TRUE, statok |-> TRUE, fsok |-> TRUE, ub |-> "notfound"]

\* The outcomes tried for a line.  A call the pass does not make has no
\* outcome, so one value stands for it: Readlink() and stat() of the device
\* name are for an absolute name only, and getmntdev() is called only in the
\* lookup state of the supplement.
EnvsFor(line, sup) ==
  { e \in Envs : /\ ~e.fsok => (line.dev # <<>> /\ line.dev[1] = Ord["/"])
                 /\ e.ub # "notfound" => sup }

\* Readlink(): /l and /x are symbolic links to /a; every other path is its
\* own resolution.
LinkTarget(path) == IF path \in {S_l, S_x} THEN S_a ELSE path

\* The stat(2) buffer a successful statsafely() fills for a path.
StatBuf(path) ==
  [st_dev |-> 64 + Len(path), st_rdev |-> 7, st_ino |-> 2, st_mode |-> 16877]
ZeroStat == [st_dev |-> 0, st_rdev |-> 0, st_ino |-> 0, st_mode |-> 0]
\* What the buffer sb holds when no call has filled it in this pass: left
\* over from before, and never read, its status being 0.
StaleStat == [st_dev |-> 99, st_rdev |-> 99, st_ino |-> 99, st_mode |-> 99]

\* ------------------------------------------------------------------------
\* readmnt(): one pass of the while loop
\* ------------------------------------------------------------------------

\* Where the new entry goes: at the head of the list.
LinkEntry_tail(e, list) == list \o <<e>>
LinkEntry(e, list) == <<e>> \o list

\* The entry with the given id replaced in place.
ReplaceEntry(list, id, e) ==
  [i \in 1..Len(list) |-> IF list[i].id = id THEN e ELSE list[i]]

\* A failed or avoided stat() of the directory drops the line unless the
\* mount supplement is consulted or the stat() was avoided by -e.
StatFailDrops(fr, usesup, ignstat) == fr # 0 /\ ~usesup /\ ignstat = 0

\* getmntdev() indexing a NULL bucket array is undefined: the call faults
\* (ub = "fault"), or the read yields an empty chain ("notfound") or a
\* chain whose entry matches ("found"), with whatever device is read there.
NullIndexed(g, ub) ==
  IF ~g.nullidx \/ ub = "fault" THEN g
  ELSE IF ub = "found"
    THEN [g EXCEPT !.nullidx = FALSE, !.ret = 1, !.set = TRUE, !.dev = 57005,
                   !.ss = g.ss \cup {SB_DEV}]
  ELSE [g EXCEPT !.nullidx = FALSE]

\* The values a pass of the loop leaves: the table, the flags, the entry
\* pointer mp, and what the pass did (out), with the resolved directory dn,
\* the stat() result fr, the -e flag ignstat, the supplement's answer sup,
\* whether the supplement file was read and whether Readlink() was called
\* for the directory and failed.
PassStart ==
  [out |-> "short", Lmi |-> Lmi, HasNFS |-> HasNFS, MqueueDev |-> MqueueDev,
   MSHash |-> MSHash, err |-> mount_sup_error, mp |-> mp, dn |-> NULLSTR,
   fr |-> 0, ignstat |-> 0, sup |-> "none", read |-> FALSE, rlfail |-> FALSE,
   fp1 |-> NULLSTR, ignrdl |-> 0, rl |-> FALSE, st |-> FALSE]

\* The mount entry filled from stat buffer sb with status ds.
FillEntry_nomask(id, line, dn, ds, sb, ty, fp0, ln, fs_mode) ==
  [id |-> id, line |-> line, dir |-> dn, dirl |-> Len(dn),
   dev |-> sb.st_dev, rdev |-> sb.st_rdev, inode |-> sb.st_ino,
   mode |-> sb.st_mode, ds |-> ds, ty |-> ty, fsname |-> fp0,
   fsnmres |-> ln, fs_mode |-> fs_mode]
FillEntry(id, line, dn, ds, sb, ty, fp0, ln, fs_mode) ==
  [id |-> id, line |-> line, dir |-> dn, dirl |-> Len(dn),
   dev |-> IF SB_DEV \in ds THEN sb.st_dev ELSE 0,
   rdev |-> IF SB_RDEV \in ds THEN sb.st_rdev ELSE 0,
   inode |-> IF SB_INO \in ds THEN sb.st_ino ELSE 0,
   mode |-> IF SB_MODE \in ds THEN sb.st_mode ELSE 0,
   ds |-> ds, ty |-> ty, fsname |-> fp0, fsnmres |-> ln, fs_mode |-> fs_mode]

\* The mounted-on device name resolved: a copy when Readlink() is avoided
\* or the name is not absolute, else what Readlink() gives.
FsResolved(fp0, ignrdl, fsok) ==
  IF ignrdl # 0 \/ CharAt(fp0, 0) # Ord["/"] THEN fp0
  ELSE IF fsok THEN LinkTarget(fp0)
  ELSE NULLSTR

\* fs_mode: the mode of the resolved mounted-on name, 0 when it is not
\* stat()ed.
FsMode(fp0, ignrdl, ignstat, ln) ==
  IF ignrdl # 0 \/ CharAt(fp0, 0) # Ord["/"] \/ ignstat # 0 \/ ln = NULLSTR
    THEN 0
    ELSE StatBuf(ln).st_mode

\* The entry e is put in the table: linked at the head when found is <<>>,
\* else written over the entry found.
PassRecord(b, found, e, g, usesup, fr) ==
  [b EXCEPT
     !.out = IF found = <<>> THEN "new" ELSE "replaced",
     !.fr = fr,
     !.sup = IF ~usesup THEN "none"
             ELSE IF g.ret = 1 THEN "found" ELSE "notfound",
     !.read = usesup /\ g.read,
     !.MSHash = IF usesup THEN g.hash ELSE @,
     !.err = IF usesup THEN g.err ELSE @,
     !.Lmi = IF found = <<>> THEN LinkEntry(e, @)
             ELSE ReplaceEntry(@, found[1].id, e),
     !.mp = IF found = <<>> THEN 0 ELSE found[1].id,
     !.HasNFS = IF e.ty = N_NFS THEN 2 ELSE @,
     !.MqueueDev = IF e.ty = N_MQUEUE THEN e.dev ELSE @]

\* The stat buffer and status after the stat() and the supplement lookup.
StatStatus(fr, usesup, g) ==
  IF fr = 0 THEN SB_ALL ELSE IF usesup THEN g.ss ELSE {}
StatResult(fr, usesup, g, dn) ==
  IF fr = 0 THEN StatBuf(dn)
  ELSE IF usesup /\ g.set THEN [ZeroStat EXCEPT !.st_dev = g.dev]
  ELSE StaleStat

\* The pass from the stat() of the directory on: fr is its result, g the
\* result of the getmntdev() call made when usesup.
PassStat(b, found, fp0, fp2, dn, ignrdl, ignstat, fsok, fr, usesup, g, ln) ==
  IF StatFailDrops(fr, usesup, ignstat)
    THEN [b EXCEPT !.out = "statfail", !.fr = fr]
  ELSE IF usesup /\ g.nullidx
    THEN [b EXCEPT !.out = "nullidx", !.fr = fr, !.read = g.read]
  ELSE PassRecord(b, found,
                  FillEntry(IF found = <<>> THEN nline + 1 ELSE found[1].id,
                            nline + 1, dn, StatStatus(fr, usesup, g),
                            StatResult(fr, usesup, g, dn), MountType(fp2),
                            fp0, ln, FsMode(fp0, ignrdl, ignstat, ln)),
                  g, usesup, fr)

\* The supplement is consulted when the stat() failed or was avoided.
UseSup(fr) == fr # 0 /\ MntSup = 2 /\ MntSupP

\* The pass from the duplicate test on: found is the result of the search
\* of the table for dn.
PassDup(b, found, fp0, fp2, dn, ignrdl, ignstat, fsok, fr, ub) ==
  IF found # <<>> /\ DupIgnored(dn, found[1], IsNfsName(fp2))
    THEN [b EXCEPT !.out = "dup"]
    ELSE PassStat([b EXCEPT !.st = ignstat = 0],
                  found, fp0, fp2, dn, ignrdl, ignstat, fsok, fr, UseSup(fr),
                  IF UseSup(fr)
                    THEN NullIndexed(getmntdev(MSHash, mount_sup_error, MntSup,
                                               MntSupP, supfile, dn, Len(dn), {}),
                                     ub)
                    ELSE GmNone(MSHash, mount_sup_error, {}, FALSE),
                  FsResolved(fp0, ignrdl, fsok))

\* The part of a pass after the directory dn has been resolved.
LineResolved(b, fp0, fp2, dn, ignrdl, ignstat, statok, fsok, ub) ==
  PassDup([b EXCEPT !.HasNFS = IF IsNfsName(fp2) /\ @ = 0 THEN 1 ELSE @,
                    !.mp = IF FindDir(Lmi, dn, Len(dn)) = <<>> THEN 0
                           ELSE FindDir(Lmi, dn, Len(dn))[1].id,
                    !.dn = dn, !.ignstat = ignstat],
          FindDir(Lmi, dn, Len(dn)), fp0, fp2, dn, ignrdl, ignstat, fsok,
          IF ignstat # 0 THEN 1 ELSE IF statok THEN 0 ELSE 1, ub)

\* The pass from the -e list test on: fp0 and fp1 are the converted device
\* name and directory, ig the flags the -e list gives, dn the directory
\* resolved (NULLSTR when Readlink() failed).
PassResolve_keep(b, fp0, fp1, fp2, ig, dn, statok, fsok, ub) ==
  IF dn = NULLSTR
    THEN LineResolved(b, fp0, fp2, fp1, ig[1], ig[2], statok, fsok, ub)
  ELSE IF CharAt(dn, 0) # Ord["/"] THEN [b EXCEPT !.out = "notabs", !.dn = dn]
  ELSE LineResolved(b, fp0, fp2, dn, ig[1], ig[2], statok, fsok, ub)
PassResolve(b, fp0, fp1, fp2, ig, dn, statok, fsok, ub) ==
  IF dn = NULLSTR THEN [b EXCEPT !.out = "readlinkfail"]
  ELSE IF CharAt(dn, 0) # Ord["/"] THEN [b EXCEPT !.out = "notabs", !.dn = dn]
  ELSE LineResolved(b, fp0, fp2, dn, ig[1], ig[2], statok, fsok, ub)

\* The directory resolved: itself when Readlink() is avoided.
DirResolved(fp1, ignrdl, rlok) ==
  IF ignrdl # 0 THEN fp1 ELSE IF rlok THEN LinkTarget(fp1) ELSE NULLSTR

\* The pass from the -e list test on: ig is what the list gives for the
\* directory fp1 as converted.  Readlink() is called unless ignrdl is set.
PassLookup(b, fp0, fp1, fp2, ig, rlok, statok, fsok, ub) ==
  PassResolve([b EXCEPT !.rlfail = ig[1] = 0 /\ ~rlok,
                        !.fp1 = fp1, !.ignrdl = ig[1], !.ignstat = ig[2],
                        !.rl = ig[1] = 0],
              fp0, fp1, fp2, ig, DirResolved(fp1, ig[1], rlok),
              statok, fsok, ub)

\* The pass once the fields are converted: buf0 and buf1 are the results of
\* convert_octal_escaped().
PassFields(b, buf0, buf1, fp2, rlok, statok, fsok, ub) ==
  IF buf0 = NULLSTR \/ buf1 = NULLSTR THEN [b EXCEPT !.out = "nullstr"]
  ELSE IF IsAutomount(CStr(buf0)) THEN [b EXCEPT !.out = "automount"]
  ELSE IF IsIgnoredFs(fp2) THEN [b EXCEPT !.out = "ignoredfs"]
  ELSE PassLookup(b, CStr(buf0), CStr(buf1), fp2,
                  EfsysLookup(Efsysl, CStr(buf1)), rlok, statok, fsok, ub)

\* One pass of the while loop for a line, with the outcomes of Readlink()
\* and statsafely() on the directory (rlok, statok) and on the mounted-on
\* device name (fsok), and of an indexing of a NULL bucket array (ub).
LineStep(line, rlok, statok, fsok, ub) ==
  IF line.nf < 3 THEN PassStart
  ELSE PassFields(PassStart, convert_octal_escaped(line.dev),
                  convert_octal_escaped(line.mnt), line.ty,
                  rlok, statok, fsok, ub)

\* ------------------------------------------------------------------------
\* Released entries
\* ------------------------------------------------------------------------

\* What the memory of a released entry can hold when it is read again.
GarbageVals ==
  { [dir |-> S_root, dirl |-> 1, ty |-> N_NFS, ds |-> SB_ALL, dev |-> 0],
    [dir |-> S_rel, dirl |-> 9, ty |-> N_MQUEUE, ds |-> {}, dev |-> 57005] }

Garbage(e) ==
  {e} \cup { [e EXCEPT !.dir = v.dir, !.dirl = v.dirl, !.ty = v.ty,
                       !.ds = v.ds, !.dev = v.dev] : v \in GarbageVals }

EntryById(list, id) == CHOOSE e \in {list[i] : i \in 1..Len(list)} : e.id = id

\* free() of the entry id while it is linked: the lists that can be seen
\* from the head afterwards (the contents of the entry are indeterminate,
\* its next pointer included).
ReleaseOutcomes(list, id) ==
  { ReplaceEntry(list, id, v) : v \in Garbage(EntryById(list, id)) }
  \cup
  { SubSeq(list, 1, i) : i \in {j \in 1..Len(list) : list[j].id = id} }

\* ------------------------------------------------------------------------
\* Actions
\* ------------------------------------------------------------------------

NoStep == [op |-> "init", out |-> "", fp2 |-> <<>>, dn |-> NULLSTR,
           fr |-> 0, ignstat |-> 0, sup |-> "none", rlfail |-> FALSE,
           fp1 |-> NULLSTR, ignrdl |-> 0, rl |-> FALSE, st |-> FALSE]
Step(op) == [NoStep EXCEPT !.op = op]

NoCall == [dir |-> NULLSTR, ret |-> 0, set |-> FALSE, dev |-> 0, ss |-> {},
           read |-> FALSE, calls |-> 0]

\* The context lsof_new() returns: mutable, no predicate, selections ORed.
NoLibCall ==
  [op |-> "lsof_new", ret |-> "LSOF_SUCCESS",
   arg |-> [cat |-> "", lo |-> 0, hi |-> 0, exclude |-> FALSE],
   got |-> FALSE, seen |-> {}, files |-> {}]
LibVars == <<frozen, selection, logic_and, call, ngather>>

\* No port comparison and no printiproto() call is under way.
NoInet == [port_lo |-> -1, port_hi |-> -1, port |-> 0, match |-> FALSE]
NoProto == [p |-> 0, m |-> -1, iproto |-> <<>>]
FnVars == <<inet, proto>>
NoFn == inet = NoInet /\ proto = NoProto

\* The -e file system list: /e with the stat() avoided, /x with the stat()
\* and the Readlink() avoided.
EfsysList == <<[path |-> S_e, rdlnk |-> 0], [path |-> S_x, rdlnk |-> 1]>>

S_sup_a == Str(<<"/", "a", " ", "0", "x", "1", "F">>)
S_sup_bad == Str(<<"/", "l", " ", "0", "x", "g">>)

\* The mount supplement configurations tried with readmnt().
SupConfigs ==
  { [MntSup |-> 0, MntSupP |-> FALSE, file |-> [readable |-> TRUE, lines |-> <<>>]],
    [MntSup |-> 2, MntSupP |-> TRUE,
     file |-> [readable |-> TRUE, lines |-> <<S_sup_a>>]],
    [MntSup |-> 2, MntSupP |-> TRUE, file |-> [readable |-> TRUE, lines |-> <<>>]] }

\* The state of a new context, before the configuration is chosen.
Fresh ==
  /\ Lmi = <<>> /\ Lmist = 0 /\ HasNFS = 0 /\ MqueueDev = 0
  /\ MSHash = NoHash /\ mount_sup_error = 0
  /\ mp = 0 /\ nline = 0 /\ released = {} /\ crashed = FALSE
  /\ built = <<>> /\ opens = 0 /\ last = NoStep
  /\ cvt_str = <<>> /\ gm = NoCall /\ sup_reads = 0
  /\ frozen = FALSE /\ selection = <<>> /\ logic_and = FALSE
  /\ call = NoLibCall /\ ngather = 0

Init ==
  /\ Fresh /\ NoFn
  /\ pc = "idle"
  /\ orig_str = <<>>
  /\ \E c \in SupConfigs :
       MntSup = c.MntSup /\ MntSupP = c.MntSupP /\ supfile = c.file
  /\ Efsysl = EfsysList

Config ==
  <<MntSup, MntSupP, supfile, Efsysl, orig_str, cvt_str, gm, LibVars, FnVars>>

\* readmnt() when the table is there: return it.
ReadmntCached ==
  /\ ~crashed /\ pc = "idle"
  /\ (Lmi # <<>> \/ Lmist = 1)
  /\ last' = Step("cached")
  /\ UNCHANGED <<Lmi, Lmist, HasNFS, MqueueDev, MSHash, mount_sup_error, pc,
                 mp, nline, released, crashed, built, opens, sup_reads, Config>>

\* readmnt() when the mount source cannot be opened, were it to mark the
\* table built on its way out.
ReadmntOpenFail_built ==
  /\ ~crashed /\ pc = "idle"
  /\ Lmi = <<>> /\ Lmist = 0
  /\ Lmist' = 1
  /\ last' = Step("openfail")
  /\ UNCHANGED <<Lmi, HasNFS, MqueueDev, MSHash, mount_sup_error, pc,
                 mp, nline, released, crashed, built, opens, sup_reads, Config>>

\* readmnt() when the mount source cannot be opened.
ReadmntOpenFail ==
  /\ ~crashed /\ pc = "idle"
  /\ Lmi = <<>> /\ Lmist = 0
  /\ last' = Step("openfail")
  /\ UNCHANGED <<Lmi, Lmist, HasNFS, MqueueDev, MSHash, mount_sup_error, pc,
                 mp, nline, released, crashed, built, opens, sup_reads, Config>>

\* readmnt() opens the mount source and enters the while loop.
ReadmntOpen ==
  /\ ~crashed /\ pc = "idle"
  /\ Lmi = <<>> /\ Lmist = 0
  /\ opens < MaxBuilds
  /\ opens' = opens + 1
  /\ pc' = "reading" /\ mp' = 0
  /\ last' = Step("open")
  /\ UNCHANGED <<Lmi, Lmist, HasNFS, MqueueDev, MSHash, mount_sup_error,
                 nline, released, crashed, built, sup_reads, Config>>

\* One line of the mount source is read and processed.
ReadmntLineOf(line, e) ==
  /\ ~crashed /\ pc = "reading"
  /\ nline < MaxLines
  /\ \E r \in {LineStep(line, e.rlok, e.statok, e.fsok, e.ub)} :
       /\ r.read => sup_reads < MaxSupReads
       /\ Lmi' = r.Lmi /\ HasNFS' = r.HasNFS /\ MqueueDev' = r.MqueueDev
       /\ MSHash' = r.MSHash /\ mount_sup_error' = r.err
       /\ mp' = r.mp
       /\ crashed' = (r.out = "nullidx")
       /\ sup_reads' = IF r.read THEN sup_reads + 1 ELSE sup_reads
       /\ last' = [op |-> "line", out |-> r.out, fp2 |-> line.ty,
                   dn |-> r.dn, fr |-> r.fr, ignstat |-> r.ignstat,
                   sup |-> r.sup, rlfail |-> r.rlfail, fp1 |-> r.fp1,
                   ignrdl |-> r.ignrdl, rl |-> r.rl, st |-> r.st]
  /\ nline' = nline + 1
  /\ UNCHANGED <<Lmist, pc, released, built, opens, Config>>

\* One pass of the while loop of readmnt(): a line is read and handled.
ReadmntLine ==
  /\ ~crashed /\ pc = "reading" /\ nline < MaxLines
  /\ \E line \in MountLines :
       \E e \in EnvsFor(line, MntSup = 2 /\ MntSupP) : ReadmntLineOf(line, e)

\* fgets() finds the end of the mount source: the table is marked built,
\* the locals are released and the table is returned.
ReadmntEOF ==
  /\ ~crashed /\ pc = "reading"
  /\ Lmist' = 1
  /\ IF mp = 0
       THEN Lmi' = Lmi /\ released' = released
       ELSE Lmi' \in ReleaseOutcomes(Lmi, mp) /\ released' = released \cup {mp}
  /\ built' = Lmi'
  /\ pc' = "idle" /\ mp' = 0
  /\ last' = Step("eof")
  /\ UNCHANGED <<HasNFS, MqueueDev, MSHash, mount_sup_error, nline, crashed,
                 opens, sup_reads, Config>>

\* clean_mnt()
CleanMnt ==
  /\ ~crashed /\ pc = "idle"
  /\ last' = Step("clean")
  /\ IF Lmist = 0
       THEN UNCHANGED <<Lmi, Lmist, released, crashed, built>>
       ELSE \/ /\ Lmist' = 0 /\ Lmi' = <<>> /\ released' = {}
               /\ built' = <<>>
               /\ crashed' = crashed
            \/ /\ released # {}
               /\ crashed' = TRUE
               /\ UNCHANGED <<Lmi, Lmist, released, built>>
  /\ UNCHANGED <<HasNFS, MqueueDev, MSHash, mount_sup_error, pc, mp, nline,
                 opens, sup_reads, Config>>

\* The memory of a released entry is used again by another allocation.
HeapReuse ==
  /\ ~crashed /\ pc = "idle"
  /\ \E id \in released :
       /\ \E i \in 1..Len(Lmi) : Lmi[i].id = id
       /\ Lmi' \in ReleaseOutcomes(Lmi, id)
       /\ Lmi' # Lmi
  /\ last' = Step("reuse")
  /\ UNCHANGED <<Lmist, HasNFS, MqueueDev, MSHash, mount_sup_error, pc, mp,
                 nline, released, crashed, built, opens, sup_reads, Config>>

Next ==
  \/ ReadmntCached
  \/ ReadmntOpenFail
  \/ ReadmntOpen
  \/ ReadmntLine
  \/ ReadmntEOF
  \/ CleanMnt
  \/ HeapReuse

Spec == Init /\ [][Next]_vars

\* ------------------------------------------------------------------------
\* convert_octal_escaped() applied to bounded strings
\* ------------------------------------------------------------------------

\* The characters of the strings tried: the escape, octal digits and a
\* digit that is not octal.
OctChars == {Ord["\\"], Ord["0"], Ord["1"], Ord["3"], Ord["4"], Ord["8"]}

S_mnt_esc == Str(<<"/", "m", "n", "t", "/", "a", "\\", "0", "4", "0", "b">>)
S_mnt_sp == Str(<<"/", "m", "n", "t", "/", "a", " ", "b">>)
S_mnt_short == Str(<<"/", "m", "n", "t", "/", "a", "\\", "0", "4">>)
S_esc_esc == Str(<<"\\", "1", "3", "4", "1", "3", "4">>)
S_bad_good == Str(<<"\\", "8", "\\", "1", "0", "1", "8">>)

\* The strings convert_octal_escaped() is given: every string over OctChars
\* of at most MaxLen characters, and some longer ones.
OctInputs ==
  UNION { [1..n -> OctChars] : n \in 0..MaxLen }
  \cup {S_mnt_esc, S_mnt_short, S_esc_esc, S_bad_good}

InitOct ==
  /\ Fresh /\ NoFn
  /\ pc = "oct"
  /\ orig_str \in OctInputs
  /\ MntSup = 0 /\ MntSupP = FALSE
  /\ supfile = [readable |-> TRUE, lines |-> <<>>]
  /\ Efsysl = EfsysList

\* cvt_str = convert_octal_escaped(ctx, orig_str)
Convert ==
  /\ pc = "oct"
  /\ cvt_str' = convert_octal_escaped(orig_str)
  /\ pc' = "octdone"
  /\ last' = Step("convert")
  /\ UNCHANGED <<Lmi, Lmist, HasNFS, MqueueDev, MSHash, mount_sup_error, MntSup,
                 MntSupP, supfile, Efsysl, mp, nline, released, crashed, built,
                 opens, orig_str, gm, sup_reads, LibVars, FnVars>>

NextOct == Convert

SpecOct == InitOct /\ [][NextOct]_vars

\* ------------------------------------------------------------------------
\* getmntdev() called on a context with a supplement file
\* ------------------------------------------------------------------------

S_sup_a2 == Str(<<"/", "a", " ", "0", "x", "2">>)
S_sup_l == Str(<<"/", "l", " ", "0", "x", "1", "F">>)
S_sup_nopath == Str(<<"a", " ", "0", "x", "1">>)
S_sup_nodev == Str(<<"/", "a", " ", "1">>)
S_sup_root == Str(<<"/", " ", "0", "x", "b">>)

\* The lines a supplement file is made of.
SupLinePool ==
  {S_sup_a, S_sup_a2, S_sup_l, S_sup_bad, S_sup_nopath, S_sup_nodev,
   S_sup_root}

\* The supplement files: readable with at most MaxSupLines lines, or not
\* readable.
SupFiles ==
  { [readable |-> TRUE, lines |-> l] :
      l \in UNION { [1..n -> SupLinePool] : n \in 0..MaxSupLines } }
  \cup { [readable |-> FALSE, lines |-> <<>>] }

\* The directories looked up.
SupDirs == {S_root, S_a, S_l}

InitSup ==
  /\ Fresh /\ NoFn
  /\ pc = "sup"
  /\ orig_str = <<>>
  /\ Efsysl = EfsysList
  /\ \/ MntSup = 2 /\ MntSupP = TRUE /\ supfile \in SupFiles
     \/ /\ MntSup \in {0, 2} /\ MntSupP = FALSE
        /\ supfile = [readable |-> TRUE, lines |-> <<>>]

\* getmntdev(ctx, dir, strlen(dir), &sb, &ds) with ds = 0.
GetmntdevCall ==
  /\ ~crashed /\ pc = "sup"
  /\ gm.calls < MaxCalls
  /\ \E dir \in SupDirs, ub \in {"fault", "notfound", "found"} :
       \E g \in {NullIndexed(getmntdev(MSHash, mount_sup_error, MntSup, MntSupP,
                                       supfile, dir, Len(dir), {}), ub)} :
           /\ g.read => sup_reads < MaxSupReads
           /\ MSHash' = g.hash /\ mount_sup_error' = g.err
           /\ crashed' = g.nullidx
           /\ sup_reads' = IF g.read THEN sup_reads + 1 ELSE sup_reads
           /\ gm' = [dir |-> dir, ret |-> g.ret, set |-> g.set, dev |-> g.dev,
                     ss |-> g.ss, read |-> g.read, calls |-> gm.calls + 1]
  /\ last' = Step("getmntdev")
  /\ UNCHANGED <<Lmi, Lmist, HasNFS, MqueueDev, MntSup, MntSupP, supfile,
                 Efsysl, pc, mp, nline, released, built, opens, orig_str,
                 cvt_str, LibVars, FnVars>>

NextSup == GetmntdevCall

SpecSup == InitSup /\ [][NextSup]_vars

\* ------------------------------------------------------------------------
\* The library context (lsof.h): lsof_new(), the selections,
\* lsof_logic_and(), lsof_freeze() and lsof_gather()
\* ------------------------------------------------------------------------

MaxPreds == 3
MaxGathers == 2

\* enum lsof_error
LSOF_SUCCESS == "LSOF_SUCCESS"
LSOF_ERROR_INVALID_ARGUMENT == "LSOF_ERROR_INVALID_ARGUMENT"
LSOF_ERROR_UNSUPPORTED == "LSOF_ERROR_UNSUPPORTED"

\* A predicate of the store: its category, the inclusive range it selects
\* (-1 for an open end) and its polarity.
Pred(cat, lo, hi, exclude) ==
  [cat |-> cat, lo |-> lo, hi |-> hi, exclude |-> exclude]
NoPred == Pred("", 0, 0, FALSE)

\* The arguments the callers pass to the selection calls.
PidArgs == {1, 2}
UidArgs == {0}
FdArgs == {<<1, -1>>}

\* The files the backend can report in a pass, and the passes tried.
File(pid, uid, fd) == [pid |-> pid, uid |-> uid, fd |-> fd]
Files == {File(1, 0, 0), File(1, 1, 3), File(2, 0, 1), File(3, 1, 0)}
Passes == {Files, {File(1, 1, 3), File(3, 1, 0)}}

\* The comparison rule of the numeric categories: inclusive bounds, -1 for
\* an open end.
InRange_closed(v, lo, hi) == v >= lo /\ v <= hi
InRange(v, lo, hi) == (lo = -1 \/ v >= lo) /\ (hi = -1 \/ v <= hi)
Matches(p, f) == InRange(f[p.cat], p.lo, p.hi)

\* The categories with a predicate registered.
EnabledCats(store) == {store[i].cat : i \in 1..Len(store)}

\* An inclusion predicate of the category matches the file: the predicates of
\* one category are alternatives.
InclMatch(store, cat, f) ==
  \E i \in 1..Len(store) :
     store[i].cat = cat /\ ~store[i].exclude /\ Matches(store[i], f)

\* An exclusion predicate matches the file.
ExclMatch(store, f) ==
  \E i \in 1..Len(store) : store[i].exclude /\ Matches(store[i], f)

\* The verdict: a matching exclusion vetoes the file in either mode; else the
\* file is to match any enabled category, or all of them once the selections
\* are ANDed.
Selected_or(store, and, f) ==
  /\ ~ExclMatch(store, f)
  /\ \E c \in EnabledCats(store) : InclMatch(store, c, f)
Selected(store, and, f) ==
  /\ ~ExclMatch(store, f)
  /\ IF and
       THEN \A c \in EnabledCats(store) : InclMatch(store, c, f)
       ELSE \E c \in EnabledCats(store) : InclMatch(store, c, f)

\* lsof_select_fd(): the store holds an FD predicate of the other polarity.
FdMixed(store, p) ==
  \E i \in 1..Len(store) : store[i].cat = "fd" /\ store[i].exclude # p.exclude

\* What a call that adds a predicate returns: no option changes once the
\* context is frozen, and FD inclusions and exclusions are not mixed.
SelectRet_mix(fr, store, p) ==
  IF fr THEN LSOF_ERROR_UNSUPPORTED ELSE LSOF_SUCCESS
SelectRet(fr, store, p) ==
  IF fr THEN LSOF_ERROR_UNSUPPORTED
  ELSE IF p.cat = "fd" /\ FdMixed(store, p) THEN LSOF_ERROR_INVALID_ARGUMENT
  ELSE LSOF_SUCCESS

LibCall(op, ret, p) ==
  [op |-> op, ret |-> ret, arg |-> p, got |-> FALSE, seen |-> {}, files |-> {}]

\* A selection call: the predicate is added to the store when it is accepted.
AddPredicate(op, p) ==
  /\ pc = "lib"
  /\ \E ret \in {SelectRet(frozen, selection, p)} :
       /\ ret = LSOF_SUCCESS => Len(selection) < MaxPreds
       /\ selection' = IF ret = LSOF_SUCCESS THEN Append(selection, p)
                       ELSE selection
       /\ call' = LibCall(op, ret, p)
  /\ UNCHANGED <<frozen, logic_and, ngather>>

LibRest ==
  <<Lmi, Lmist, HasNFS, MqueueDev, MSHash, mount_sup_error, MntSup, MntSupP,
    supfile, Efsysl, pc, mp, nline, released, crashed, built, opens, last,
    orig_str, cvt_str, gm, sup_reads, FnVars>>

\* lsof_select_pid(ctx, pid, exclude)
lsof_select_pid ==
  /\ \E pid \in PidArgs, exclude \in BOOLEAN :
       AddPredicate("lsof_select_pid", Pred("pid", pid, pid, exclude))
  /\ UNCHANGED LibRest

\* lsof_select_uid(ctx, uid, exclude)
lsof_select_uid ==
  /\ \E uid \in UidArgs, exclude \in BOOLEAN :
       AddPredicate("lsof_select_uid", Pred("uid", uid, uid, exclude))
  /\ UNCHANGED LibRest

\* lsof_select_fd(ctx, LSOF_FD_NUMERIC, fd_num_lo, fd_num_hi, exclude)
lsof_select_fd ==
  /\ \E fd_num \in FdArgs, exclude \in BOOLEAN :
       AddPredicate("lsof_select_fd", Pred("fd", fd_num[1], fd_num[2], exclude))
  /\ UNCHANGED LibRest

\* lsof_logic_and(ctx)
LogicAndRet(fr) == IF fr THEN LSOF_ERROR_UNSUPPORTED ELSE LSOF_SUCCESS
lsof_logic_and ==
  /\ pc = "lib"
  /\ \E ret \in {LogicAndRet(frozen)} :
       /\ logic_and' = IF ret = LSOF_SUCCESS THEN TRUE ELSE logic_and
       /\ call' = LibCall("lsof_logic_and", ret, NoPred)
  /\ UNCHANGED <<frozen, selection, ngather>>
  /\ UNCHANGED LibRest

\* lsof_freeze(ctx): once per context.
FreezeRet_again(fr) == LSOF_SUCCESS
FreezeRet(fr) == IF fr THEN LSOF_ERROR_UNSUPPORTED ELSE LSOF_SUCCESS
lsof_freeze ==
  /\ pc = "lib"
  /\ \E ret \in {FreezeRet(frozen)} :
       /\ frozen' = IF ret = LSOF_SUCCESS THEN TRUE ELSE frozen
       /\ call' = LibCall("lsof_freeze", ret, NoPred)
  /\ UNCHANGED <<selection, logic_and, ngather>>
  /\ UNCHANGED LibRest

\* lsof_gather(ctx, result): invalid when a pointer is NULL or the context is
\* not frozen; else a pass over what the backend reports now.
GatherRet_thawed(ctx_null, result_null, fr) ==
  IF ctx_null \/ result_null THEN LSOF_ERROR_INVALID_ARGUMENT ELSE LSOF_SUCCESS
GatherRet(ctx_null, result_null, fr) ==
  IF ctx_null \/ result_null \/ ~fr THEN LSOF_ERROR_INVALID_ARGUMENT
  ELSE LSOF_SUCCESS
lsof_gather ==
  /\ pc = "lib"
  /\ \E ctx_null \in BOOLEAN, result_null \in BOOLEAN, pass \in Passes :
       \E ret \in {GatherRet(ctx_null, result_null, frozen)} :
          /\ ret = LSOF_SUCCESS => ngather < MaxGathers
          /\ ngather' = IF ret = LSOF_SUCCESS THEN ngather + 1 ELSE ngather
          /\ call' = [op |-> "lsof_gather", ret |-> ret,
                      arg |-> Pred(IF ctx_null THEN "ctx NULL"
                                   ELSE IF result_null THEN "result NULL"
                                   ELSE "", 0, 0, FALSE),
                      got |-> ret = LSOF_SUCCESS,
                      seen |-> IF ret = LSOF_SUCCESS THEN pass ELSE {},
                      files |-> IF ret = LSOF_SUCCESS
                                  THEN {f \in pass :
                                          Selected(selection, logic_and, f)}
                                  ELSE {}]
  /\ UNCHANGED <<frozen, selection, logic_and>>
  /\ UNCHANGED LibRest

InitLib ==
  /\ Fresh /\ NoFn
  /\ pc = "lib"
  /\ orig_str = <<>>
  /\ MntSup = 0 /\ MntSupP = FALSE
  /\ supfile = [readable |-> TRUE, lines |-> <<>>]
  /\ Efsysl = EfsysList

NextLib ==
  \/ lsof_select_pid
  \/ lsof_select_uid
  \/ lsof_select_fd
  \/ lsof_logic_and
  \/ lsof_freeze
  \/ lsof_gather

SpecLib == InitLib /\ [][NextLib]_vars

\* ------------------------------------------------------------------------
\* lsof_select_inet(): the port range (lsof.h)
\* ------------------------------------------------------------------------

\* The bounds given as port_lo and port_hi, and the ports of the sockets
\* compared with them.
PortBounds == {-1, 0, 79, 80, 81}
Ports == {0, 1, 79, 80, 81, 65535}

\* A port range has been selected and a socket with a port is met.
InitPort ==
  /\ Fresh
  /\ pc = "port"
  /\ orig_str = <<>>
  /\ MntSup = 0 /\ MntSupP = FALSE
  /\ supfile = [readable |-> TRUE, lines |-> <<>>]
  /\ Efsysl = EfsysList
  /\ proto = NoProto
  /\ \E lo \in PortBounds, hi \in PortBounds, port \in Ports :
       inet = [port_lo |-> lo, port_hi |-> hi, port |-> port, match |-> FALSE]

\* The port of the socket is compared with the range selected.
PortMatch ==
  /\ pc = "port"
  /\ inet' = [inet EXCEPT !.match = InRange(inet.port, inet.port_lo, inet.port_hi)]
  /\ pc' = "portdone"
  /\ last' = Step("port")
  /\ UNCHANGED <<Lmi, Lmist, HasNFS, MqueueDev, MSHash, mount_sup_error, MntSup,
                 MntSupP, supfile, Efsysl, mp, nline, released, crashed, built,
                 opens, orig_str, cvt_str, gm, sup_reads, LibVars, proto>>

NextPort == PortMatch

SpecPort == InitPort /\ [][NextPort]_vars

\* ------------------------------------------------------------------------
\* printiproto() (print.c)
\* ------------------------------------------------------------------------

\* The width of the protocol name column.
IPROTOL == 8

\* sizeof(Lf->iproto): the field holds IPROTOL - 1 characters and the
\* terminating zero byte.
IprotoSize == IPROTOL

\* The switch: protocol numbers with a case label, and the name assigned.
ProtoNames ==
  { <<0, Str(<<"I", "P">>)>>, <<1, Str(<<"I", "C", "M", "P">>)>>,
    <<2, Str(<<"I", "G", "M", "P">>)>>, <<6, Str(<<"T", "C", "P">>)>>,
    <<17, Str(<<"U", "D", "P">>)>>,
    <<43, Str(<<"R", "O", "U", "T", "I", "N", "G">>)>>,
    <<58, Str(<<"I", "C", "M", "P", "V", "6">>)>>,
    <<60, Str(<<"D", "S", "T", "O", "P", "T", "S">>)>> }

\* s after the switch: the name for p, NULL in the default case.
ProtoName(p) ==
  IF \E n \in ProtoNames : n[1] = p
    THEN (CHOOSE n \in ProtoNames : n[1] = p)[2]
    ELSE NULLSTR

\* "%d" for a number that is not negative.
RECURSIVE FmtD(_)
FmtD(n) ==
  IF n < 10 THEN <<Ord["0"] + n>>
  ELSE FmtD(n \div 10) \o <<Ord["0"] + (n % 10)>>

\* "%.*s" with precision n.
FmtPrecS(n, str) == IF Len(str) > n THEN SubSeq(str, 1, n) ELSE str

\* snpf() into a buffer of size bytes: the characters that fit before the
\* terminating zero byte.
snpf(size, text) == IF Len(text) > size - 1 THEN SubSeq(text, 1, size - 1) ELSE text

\* for (i = 0, m = 1; i < IPROTOL - 2; i++) m *= 10;
RECURSIVE MLoop(_, _)
MLoop(i, m) == IF i < IPROTOL - 2 THEN MLoop(i + 1, m * 10) ELSE m

\* The static m after a call that takes the default case.
StaticM(m) == IF m < 0 THEN MLoop(0, 1) ELSE m

\* The modulus of the "*%d?" case.
StarMod_m(m) == m
StarMod(m) == m \div 10

\* The text of a protocol without a name.
UnknownProto(p, m) ==
  IF m > p THEN FmtD(p) \o Str(<<"?">>)
  ELSE Str(<<"*">>) \o FmtD(p % StarMod(m)) \o Str(<<"?">>)

\* The protocol numbers printiproto() is called with: the small ones, and
\* those around the powers of ten the code compares with.
ProtoArgs ==
  (0..99)
  \cup { MLoop(0, 1) \div 10 + d : d \in {-1, 0, 1} }
  \cup { MLoop(0, 1) + d : d \in {-1, 0, 1, 5} }
  \cup { MLoop(0, 1) + MLoop(0, 1) \div 10 + d : d \in {-1, 0, 5} }
  \cup { 2 * MLoop(0, 1) - 1, 12 * MLoop(0, 1) + 34, 2147483647 }

InitProto ==
  /\ Fresh
  /\ pc = "proto"
  /\ orig_str = <<>>
  /\ MntSup = 0 /\ MntSupP = FALSE
  /\ supfile = [readable |-> TRUE, lines |-> <<>>]
  /\ Efsysl = EfsysList
  /\ inet = NoInet
  /\ proto = NoProto

\* printiproto(ctx, p)
printiproto ==
  /\ pc = "proto"
  /\ \E p \in ProtoArgs :
       proto' = IF ProtoName(p) # NULLSTR
                  THEN [p |-> p, m |-> proto.m,
                        iproto |-> snpf(IprotoSize,
                                        FmtPrecS(IPROTOL - 1, ProtoName(p)))]
                  ELSE [p |-> p, m |-> StaticM(proto.m),
                        iproto |-> snpf(IprotoSize,
                                        UnknownProto(p, StaticM(proto.m)))]
  /\ last' = Step("printiproto")
  /\ UNCHANGED <<Lmi, Lmist, HasNFS, MqueueDev, MSHash, mount_sup_error, MntSup,
                 MntSupP, supfile, Efsysl, pc, mp, nline, released, crashed,
                 built, opens, orig_str, cvt_str, gm, sup_reads, LibVars, inet>>

NextProto == printiproto

SpecProto == InitProto /\ [][NextProto]_vars

\* ------------------------------------------------------------------------
\* Properties of readmnt() and clean_mnt()
\* ------------------------------------------------------------------------

\* The entries of the bucket array for a path.
PathEntries(hash, path) ==
  IF hash = NoHash THEN <<>>
  ELSE SelectSeq(hash[hash_mnt(path)], LAMBDA m : m.dir_name = path)

\* No two entries of a list have the same directory.
NoDupDirs(list) ==
  \A i, j \in 1..Len(list) : i # j => list[i].dir # list[j].dir

\* The entries of a list whose directory is the root.
RootEntries(list) == {list[i] : i \in {k \in 1..Len(list) : list[k].dir = S_root}}

\* C1: once a build is complete, a readmnt() call made before any clean_mnt()
\* returns the list the build returned, entry for entry and field for field,
\* and does not open the mount source.
C1_Original ==
  [][(MntSup = 0 /\ last'.op = "cached") => (Lmi' = built /\ opens' = opens)]_vars

\* C2: no two entries of the table have the same directory, and a line that
\* resolves to a directory other than the root that an earlier entry has is
\* dropped with the table left as it was, through the end of the build.
C2_Original ==
  [][MntSup = 0 =>
       /\ NoDupDirs(Lmi')
       /\ (last'.op = "line" /\ last'.out = "dup") => Lmi' = Lmi
       /\ (pc = "reading" /\ pc' = "idle" /\ last.op = "line"
             /\ last.out = "dup" /\ last.dn # S_root) => Lmi' = Lmi]_vars

\* C3: when the last line of the mount source is a second line for the root
\* whose stat() succeeded, the finished table has one root entry: the
\* NFS-typed one when the two lines differ in kind, in either order, and the
\* first one when they are of the same kind.
C3_Original ==
  [][(MntSup = 0 /\ pc = "reading" /\ pc' = "idle" /\ last.op = "line"
        /\ last.dn = S_root
        /\ last.out \in {"dup", "replaced"} /\ last.fr = 0
        /\ \A e \in RootEntries(Lmi) : e.ds = SB_ALL)
     => /\ Cardinality(RootEntries(Lmi')) = 1
        /\ RootEntries(Lmi') = RootEntries(Lmi)
        /\ IsNfsName(last.fp2) => \A e \in RootEntries(Lmi') : e.ty = N_NFS]_vars

\* C6: a line whose stat() failed, that is not on the -e list and for which
\* the supplement gave no device leaves no entry in the table.
C6_Original ==
  (pc = "reading" /\ last.op = "line" /\ last.fr # 0 /\ last.ignstat = 0
     /\ (last.sup = "none" \/ (last.sup = "notfound" /\ MSHash # NoHash)))
  => /\ last.out \notin {"new", "replaced"}
     /\ \A i \in 1..Len(Lmi) : Lmi[i].line # nline

\* C7 as stated: in the finished table the entry of an earlier line comes
\* before the entry of a later line.
C7_Original ==
  (MntSup = 0 /\ Lmist = 1 /\ released = {})
  => \A i, j \in 1..Len(Lmi) : i < j => Lmi[i].line < Lmi[j].line

\* C7: each new entry is linked at the head of the list, so the list runs
\* from the entry created last to the entry created first; an entry written
\* over in place keeps the position it was created at.
C7_Amended ==
  \A i, j \in 1..Len(Lmi) : i < j => Lmi[i].id > Lmi[j].id

\* C7: a finished table of two intact entries, the later line first, returned
\* again by a cached call.
C7_Witness ==
  /\ MntSup = 0 /\ Lmist = 1 /\ released = {} /\ Len(Lmi) = 2
  /\ Lmi[1].line > Lmi[2].line
  /\ last.op = "cached"

\* The type C10 states for a file system type name: every name compared in
\* any letter case.
StatedType(fp2) ==
  IF ToLowerStr(fp2) \in {S_nfs, S_nfs3, S_nfs4} THEN N_NFS
  ELSE IF ToLowerStr(fp2) = S_mqueue THEN N_MQUEUE
  ELSE N_REGLR

\* The type with "mqueue" compared as written.
ExactMqueueType(fp2) ==
  IF ToLowerStr(fp2) \in {S_nfs, S_nfs3, S_nfs4} THEN N_NFS
  ELSE IF fp2 = S_mqueue THEN N_MQUEUE
  ELSE N_REGLR

\* The line just processed put its data in an entry.
Recorded == pc = "reading" /\ last.op = "line" /\ last.out \in {"new", "replaced"}

\* C10 as stated: the entry a line is recorded in has the type given by a
\* match of the file system type name in any letter case, "mqueue" included.
C10_Original ==
  (MntSup = 0 /\ Recorded) => \A i \in 1..Len(Lmi) :
                Lmi[i].line = nline => Lmi[i].ty = StatedType(last.fp2)

\* C10: "nfs", "nfs3" and "nfs4" in any letter case give the NFS type, the
\* name "mqueue" in lower case only gives the message-queue type, and every
\* other name, "MQUEUE" included, gives the regular type.
C10_Amended ==
  Recorded => /\ \E i \in 1..Len(Lmi) : Lmi[i].line = nline
              /\ \A i \in 1..Len(Lmi) :
                   Lmi[i].line = nline => Lmi[i].ty = ExactMqueueType(last.fp2)

\* C10: a line of type "MQUEUE" recorded as a regular entry.
C10_Witness ==
  /\ MntSup = 0 /\ Recorded /\ last.fp2 = T_MQUEUE
  /\ Len(Lmi) >= 1 /\ Lmi[1].line = nline /\ Lmi[1].ty = N_REGLR

\* A string has sub as a substring.
Contains(str, sub) ==
  \E k \in 0..(Len(str) - Len(sub)) : SubSeq(str, k + 1, k + Len(sub)) = sub

S_colonpid == Str(<<":", "(", "p", "i", "d">>)

\* C11: no entry of the table comes from a line whose unescaped device name
\* has ":(pid" as a substring.
C11_Original ==
  MntSup = 0 => \A i \in 1..Len(Lmi) : ~Contains(Lmi[i].fsname, S_colonpid)

\* A step that processes one line of the mount source.
LineRead == nline' = nline + 1 /\ last'.op = "line"

\* C12: a line whose type is "autofs", "pipefs" or "sockfs" in any letter
\* case changes neither the table nor HasNFS, and a line whose type only
\* contains such a name is not skipped as an ignored file system.
C12_Theorem ==
  [][LineRead =>
       /\ ToLowerStr(last'.fp2) \in {S_autofs, S_pipefs, S_sockfs}
            => (Lmi' = Lmi /\ HasNFS' = HasNFS)
       /\ last'.fp2 = T_autofsx => last'.out # "ignoredfs"]_vars

\* C12: a line of type "AutoFS" read after an entry was recorded.
C12_Witness ==
  /\ pc = "reading" /\ last.op = "line" /\ last.fp2 = T_AutoFS
  /\ last.out = "ignoredfs" /\ Len(Lmi) = 1 /\ Lmi[1].line = nline - 1

\* A line of the mount source for an ext4 mount on m, and the calls of a
\* pass all succeeding.
PlainLine(m) == [nf |-> 3, dev |-> S_d, mnt |-> m, ty |-> T_ext4]

\* C13: a line for whose directory Readlink() failed leaves no entry and
\* ends nothing: a further line can be read and recorded, and the end of
\* the mount source can be reached, which marks the table built.
C13_Theorem ==
  (pc = "reading" /\ last.op = "line" /\ last.rlfail)
  => /\ ~crashed
     /\ \A i \in 1..Len(Lmi) : Lmi[i].line # nline
     /\ nline < MaxLines
          => \E m \in MntPoints :
                ENABLED ( /\ ReadmntLineOf(PlainLine(m), AllOk)
                          /\ last'.out = "new" /\ Len(Lmi') = Len(Lmi) + 1 )
     /\ ENABLED (ReadmntEOF /\ Lmist' = 1 /\ pc' = "idle")

\* C13: Readlink() failed for the first line read.
C13_Witness ==
  /\ pc = "reading" /\ last.op = "line" /\ last.rlfail
  /\ last.out = "readlinkfail" /\ nline < MaxLines /\ Lmi = <<>>

\* C14: the directory of every entry of the table begins with '/' and dirl
\* is its length.
C14_Original ==
  MntSup = 0 => \A i \in 1..Len(Lmi) :
                  /\ Lmi[i].dir # <<>> /\ Lmi[i].dir[1] = Ord["/"]
                  /\ Lmi[i].dirl = Len(Lmi[i].dir)

\* The fields of an entry agree with its validity mask ds: a field whose
\* bit is not set is 0.
MaskedZero(e) ==
  /\ SB_DEV \notin e.ds => e.dev = 0
  /\ SB_RDEV \notin e.ds => e.rdev = 0
  /\ SB_INO \notin e.ds => e.inode = 0
  /\ SB_MODE \notin e.ds => e.mode = 0

\* C15: the entry a line is recorded in has a validity mask; a field whose
\* bit is set is the one of the stat result, a field whose bit is not set is
\* 0, and an entry whose device came from the supplement has the device bit
\* only, with the supplement's device.
C15_Theorem ==
  Recorded => \A i \in 1..Len(Lmi) :
    Lmi[i].line = nline =>
      /\ MaskedZero(Lmi[i])
      /\ last.fr = 0 =>
           /\ Lmi[i].ds = SB_ALL
           /\ Lmi[i].dev = StatBuf(Lmi[i].dir).st_dev
           /\ Lmi[i].rdev = StatBuf(Lmi[i].dir).st_rdev
           /\ Lmi[i].inode = StatBuf(Lmi[i].dir).st_ino
           /\ Lmi[i].mode = StatBuf(Lmi[i].dir).st_mode
      /\ (last.fr # 0 /\ last.sup = "found") =>
           /\ Lmi[i].ds = {SB_DEV}
           /\ MSHash # NoHash =>
                Lmi[i].dev = PathEntries(MSHash, Lmi[i].dir)[1].dev
      /\ (last.fr # 0 /\ last.sup # "found") => Lmi[i].ds = {}

\* C15: /a recorded with the device 0x1F of the supplement line "/a 0x1F".
C15_Witness ==
  /\ Recorded /\ last.sup = "found" /\ MSHash # NoHash
  /\ Lmi[1].line = nline /\ Lmi[1].dir = S_a /\ Lmi[1].ds = {SB_DEV}
  /\ Lmi[1].dev = 31 /\ Lmi[1].rdev = 0 /\ Lmi[1].inode = 0 /\ Lmi[1].mode = 0

\* C16: clean_mnt() after a completed build empties the table and clears
\* the built marker, after which readmnt() reads the mount source again;
\* clean_mnt() with no completed build changes nothing.
C16_Original ==
  [][(MntSup = 0 /\ last'.op = "clean") =>
       /\ ~crashed'
       /\ Lmist = 1 => (Lmi' = <<>> /\ Lmist' = 0)
       /\ Lmist = 0 => (Lmi' = Lmi /\ Lmist' = 0)]_vars

\* C22: when readmnt() has returned the table, no entry that can be reached
\* from its head has been released.
C22_Original ==
  (MntSup = 0 /\ pc = "idle" /\ ~crashed)
  => \A i \in 1..Len(Lmi) : Lmi[i].id \notin released

\* The entries of the -e list for a path, compared character for character.
OnList(path) == {i \in 1..Len(Efsysl) : Efsysl[i].path = path}

\* C23: for every line that reaches the -e list test, with fp1 the
\* mount-point as converted and not resolved: when fp1 is on the list the
\* directory is not stat()ed and Readlink() is called exactly when the
\* entry's rdlnk flag is 0; when fp1 is not on the list Readlink() is called,
\* and stat() is called unless the line was dropped before it (Readlink()
\* failed, the name is not absolute, or it is a duplicate); Readlink() is
\* never avoided while stat() is called.
C23_Theorem ==
  (last.op = "line" /\ last.fp1 # NULLSTR) =>
    /\ OnList(last.fp1) # {}
         => /\ ~last.st
            /\ last.rl <=> \A i \in OnList(last.fp1) : Efsysl[i].rdlnk = 0
    /\ OnList(last.fp1) = {}
         => /\ last.rl
            /\ last.st <=> last.out \notin {"readlinkfail", "notabs", "dup"}
    /\ ~(~last.rl /\ last.st)

\* C23: /x, on the list with the Readlink() avoided, was recorded as it is
\* written, without Readlink() and without stat().
C23_Witness ==
  /\ last.op = "line" /\ last.fp1 = S_x /\ last.out = "new"
  /\ ~last.rl /\ ~last.st /\ Len(Lmi) = 1 /\ Lmi[1].dir = S_x

\* C23: /e, on the list with the stat() avoided only, was resolved and not
\* stat()ed.
C23_Witness_e ==
  /\ last.op = "line" /\ last.fp1 = S_e /\ last.out = "new"
  /\ last.rl /\ ~last.st

\* C28: after a readmnt() call that could not open the mount source the
\* table is empty and not marked built, so the next call does not take the
\* cached return and opens the source again.
C28_Theorem ==
  last.op = "openfail"
  => /\ Lmi = <<>> /\ Lmist = 0 /\ pc = "idle"
     /\ ~ENABLED ReadmntCached
     /\ opens < MaxBuilds => ENABLED (ReadmntOpen /\ opens' = opens + 1)

\* C28: the open failed on a call made after an earlier table was built
\* and cleaned away.
C28_Witness ==
  last.op = "openfail" /\ opens = 1 /\ Lmi = <<>> /\ Lmist = 0

\* The line just processed has an NFS type name and got past the skip
\* filters and the resolution of its mount-point.
NfsLinePassed ==
  /\ last.op = "line" /\ ToLowerStr(last.fp2) \in {S_nfs, S_nfs3, S_nfs4}
  /\ last.out \in {"dup", "statfail", "nullidx", "new", "replaced"}

\* The has-NFS flag as stated for a state: one of 0, 1 and 2, 2 when an
\* entry of the table has the NFS type, and 1 at least after a line with
\* an NFS type name got to the duplicate test.
HasNFSStated ==
  /\ HasNFS \in {0, 1, 2}
  /\ (\E i \in 1..Len(Lmi) : Lmi[i].ty = N_NFS) => HasNFS = 2
  /\ NfsLinePassed => HasNFS >= 1

\* C27: the has-NFS flag is 0, 1 or 2, no step of readmnt() or clean_mnt()
\* lowers it, it is 2 whenever an entry reachable from the head of the table
\* has the NFS type, and it is 1 at least once a line with an NFS type name
\* got to the duplicate test, whatever happens to the line afterwards.
C27_Original == [][HasNFS' >= HasNFS /\ HasNFSStated']_vars

\* C27 with the table part stated for the entries that have not been
\* released.
C27_Unreleased ==
  [][/\ HasNFS' >= HasNFS /\ HasNFS' \in {0, 1, 2}
     /\ (\E i \in 1..Len(Lmi') :
           Lmi'[i].ty = N_NFS /\ Lmi'[i].id \notin released') => HasNFS' = 2
     /\ NfsLinePassed' => HasNFS' >= 1]_vars

\* C27: an NFS line dropped as a duplicate raised the flag to 1.
C27_DroppedDup ==
  NfsLinePassed /\ last.out = "dup" /\ HasNFS = 1

\* ------------------------------------------------------------------------
\* Properties of convert_octal_escaped()
\* ------------------------------------------------------------------------

\* A backslash at position i (from 1) followed by three octal digits that
\* lie in the string.
WellFormedAt(str, i) ==
  /\ str[i] = Ord["\\"]
  /\ i + 3 <= Len(str)
  /\ \A k \in 1..3 : str[i + k] \in Ord["0"]..Ord["7"]

EscStarts(str) == {i \in 1..Len(str) : WellFormedAt(str, i)}

\* The positions that give a character of the result: all but the digits of
\* the well-formed escapes.
Kept(str) ==
  {i \in 1..Len(str) : \A e \in EscStarts(str) : ~(e < i /\ i <= e + 3)}

OctValue(str, i) ==
  64 * (str[i + 1] - Ord["0"]) + 8 * (str[i + 2] - Ord["0"])
    + (str[i + 3] - Ord["0"])

\* The result C8 describes: the kept positions in order, an escape giving
\* the character with its octal value (a character being a byte, the value
\* is taken modulo 256) and any other position its own character.
Expected(str) ==
  [k \in 1..Cardinality(Kept(str)) |->
     LET i == CHOOSE p \in Kept(str) :
                Cardinality({q \in Kept(str) : q <= p}) = k
     IN  IF i \in EscStarts(str) THEN OctValue(str, i) % 256 ELSE str[i]]

\* The bytes written for a string that may be empty.
Written(str) == IF str = <<>> THEN <<>> ELSE convert_octal_escaped(str)

Converted == pc = "octdone" /\ orig_str # <<>>

\* C8: every backslash followed by three octal digits inside the string is
\* replaced by the one character with that octal value, every other
\* character is copied in order, "/mnt/a\040b" becomes "/mnt/a b", and what
\* a conversion produced is not scanned again.
C8_Theorem ==
  Converted => /\ cvt_str = Expected(orig_str)
               /\ orig_str = S_mnt_esc => cvt_str = S_mnt_sp

\* C8: "\134134" converted to "\134": the backslash produced is not scanned.
C8_Witness ==
  /\ Converted /\ orig_str = S_esc_esc
  /\ cvt_str = Str(<<"\\", "1", "3", "4">>)

\* C9: a backslash not followed by three octal digits inside the string is
\* copied as it is and the characters after it are converted as they would
\* be on their own; with no well-formed escape the result is the original.
C9_Theorem ==
  Converted =>
    /\ EscStarts(orig_str) = {} => cvt_str = orig_str
    /\ \A i \in 1..Len(orig_str) :
         (orig_str[i] = Ord["\\"] /\ ~WellFormedAt(orig_str, i))
         => cvt_str = Written(SubSeq(orig_str, 1, i - 1)) \o <<Ord["\\"]>>
                        \o Written(SubSeq(orig_str, i + 1, Len(orig_str)))

\* C9: "\8\1018" converted to "\8A8": the first backslash is copied, the
\* escape after it converted.
C9_Witness ==
  /\ Converted /\ orig_str = S_bad_good
  /\ cvt_str = Str(<<"\\", "8", "A", "8">>)

\* The position in the result of the character given by position i of the
\* original.
OutPos(str, i) == Cardinality({q \in Kept(str) : q <= i})

\* C30: the character written for a well-formed escape with the digits
\* a, b, c is (64a + 8b + c) mod 256: from \400 on the value wraps around,
\* and \000 and \400 give a zero byte, at which the string readmnt() gets
\* ends (at the first of them).
C30_Theorem ==
  Converted =>
    \A i \in EscStarts(orig_str) :
       /\ cvt_str[OutPos(orig_str, i)] = OctValue(orig_str, i) % 256
       /\ cvt_str[OutPos(orig_str, i)] \in 0..255
       /\ OctValue(orig_str, i) >= 256
            => cvt_str[OutPos(orig_str, i)] = OctValue(orig_str, i) - 256
       /\ OctValue(orig_str, i) \in {0, 256}
            => /\ cvt_str[OutPos(orig_str, i)] = 0
               /\ Len(CStr(cvt_str)) < OutPos(orig_str, i)
               /\ (\A k \in 1..(OutPos(orig_str, i) - 1) : cvt_str[k] # 0)
                    => CStr(cvt_str) = SubSeq(cvt_str, 1, OutPos(orig_str, i) - 1)

\* C30: "\4001" converted: the escape wrapped to a zero byte, and the
\* string readmnt() gets is empty though a character was written after it.
C30_Witness ==
  /\ Converted
  /\ orig_str = Str(<<"\\", "4", "0", "0", "1">>)
  /\ cvt_str = <<0, Ord["1"]>>
  /\ CStr(cvt_str) = <<>>

\* C30: "\444" converted to the character 36 = 292 - 256.
C30_Witness_wrap ==
  /\ Converted
  /\ orig_str = Str(<<"\\", "4", "4", "4", "1">>)
  /\ cvt_str = <<36, Ord["1"]>>

\* ------------------------------------------------------------------------
\* Properties of getmntdev()
\* ------------------------------------------------------------------------

\* A supplement line passes validation: it starts with '/', its first space
\* is followed by "0x", and only hexadecimal digits follow.
SupLineValid(buf) ==
  /\ Len(buf) >= 1 /\ buf[1] = Ord["/"]
  /\ \E k \in 1..Len(buf) :
       /\ buf[k] = Ord[" "] /\ \A j \in 1..(k - 1) : buf[j] # Ord[" "]
       /\ k + 2 <= Len(buf) /\ buf[k + 1] = Ord["0"] /\ buf[k + 2] = Ord["x"]
       /\ \A j \in (k + 3)..Len(buf) :
            \/ buf[j] \in Ord["0"]..Ord["9"]
            \/ buf[j] \in Ord["a"]..Ord["f"]
            \/ buf[j] \in Ord["A"]..Ord["F"]

HasInvalidLine(file) ==
  \E i \in 1..Len(file.lines) : ~SupLineValid(file.lines[i])

\* getmntdev() has been called with a readable supplement file configured.
SupCalled ==
  pc = "sup" /\ gm.calls >= 1 /\ MntSup = 2 /\ MntSupP /\ supfile.readable

\* C4: when a line of the supplement file fails validation, the getmntdev()
\* call that read the file and every later call report not-found, whatever
\* the path, and no table is kept.
C4_Theorem ==
  (SupCalled /\ HasInvalidLine(supfile))
  => /\ gm.ret = 0 /\ ~gm.set /\ SB_DEV \notin gm.ss
     /\ mount_sup_error = 1 /\ MSHash = NoHash /\ ~crashed

\* C4: a second call, for a path on a valid line of a file with an invalid
\* line, reports not-found without reading the file again.
C4_Witness ==
  /\ SupCalled /\ supfile.lines = <<S_sup_a, S_sup_bad>>
  /\ gm.calls >= 2 /\ gm.dir = S_a /\ gm.ret = 0 /\ ~gm.read

\* C5: whatever directory is looked up, two valid lines with the same path
\* and different devices set the error flag, and two with the same path and
\* the same device leave one entry for the path.
C5_Original ==
  (SupCalled /\ ~HasInvalidLine(supfile) /\ Len(supfile.lines) = 2
     /\ ParseSupLine(supfile.lines[1]).path = ParseSupLine(supfile.lines[2]).path)
  => IF ParseSupLine(supfile.lines[1]).dev # ParseSupLine(supfile.lines[2]).dev
       THEN mount_sup_error = 1
       ELSE Len(PathEntries(MSHash, ParseSupLine(supfile.lines[1]).path)) = 1

\* The path of a valid supplement line: the characters before its first
\* space.
LinePath(buf) ==
  SubSeq(buf, 1, (CHOOSE k \in 1..Len(buf) :
                    /\ buf[k] = Ord[" "]
                    /\ \A j \in 1..(k - 1) : buf[j] # Ord[" "]) - 1)

\* The value of a hexadecimal digit in either letter case.
HexDigit(ch) ==
  IF ch \in Ord["0"]..Ord["9"] THEN ch - Ord["0"]
  ELSE IF ch \in Ord["a"]..Ord["f"] THEN ch - Ord["a"] + 10
  ELSE ch - Ord["A"] + 10

\* The number a sequence of hexadecimal digits denotes.
RECURSIVE HexValue(_)
HexValue(digits) ==
  IF digits = <<>> THEN 0
  ELSE 16 * HexValue(SubSeq(digits, 1, Len(digits) - 1))
       + HexDigit(digits[Len(digits)])

\* The device of a valid supplement line: the hexadecimal number after the
\* " 0x" that follows its path.
LineDev(buf) == HexValue(SubSeq(buf, Len(LinePath(buf)) + 4, Len(buf)))

\* The lines of the file whose path is dir, character for character.
LinesFor(file, dir) ==
  { i \in 1..Len(file.lines) : LinePath(file.lines[i]) = dir }

\* The lines of the file are valid and no two have the same path.
DistinctPaths(file) ==
  /\ ~HasInvalidLine(file)
  /\ \A i, j \in 1..Len(file.lines) :
       LinePath(file.lines[i]) = LinePath(file.lines[j]) => i = j

\* C26: after getmntdev() read a supplement file of valid lines with
\* distinct paths, a call for a directory reports found exactly when a line
\* has that directory as its path, and then the stat buffer holds the
\* device of that line and the status gained the device bit only; a call
\* that reports not-found leaves the status and the stat buffer alone.
C26_Original ==
  (SupCalled /\ DistinctPaths(supfile))
  => /\ ~crashed
     /\ gm.ret = 1 <=> LinesFor(supfile, gm.dir) # {}
     /\ gm.ret = 1
          => /\ gm.set /\ gm.ss = {SB_DEV}
             /\ \A i \in LinesFor(supfile, gm.dir) :
                  gm.dev = LineDev(supfile.lines[i])
     /\ gm.ret = 0 => (~gm.set /\ gm.ss = {})

\* C26 for a supplement file that has a line at least.
C26_NonEmpty == supfile.lines # <<>> => C26_Original

\* C26: a line with a lower case digit and one with an upper case digit
\* were read, and the directory of the second was found.
C26_Found ==
  /\ SupCalled /\ supfile.lines = <<S_sup_root, S_sup_l>>
  /\ gm.dir = S_l /\ gm.ret = 1 /\ gm.dev = 31

\* C24: the supplement file is read at most once: no getmntdev() call reads
\* it after a call that has read it.
C24_Original == sup_reads <= 1

\* C25: a getmntdev() call that reaches the bucket search (the supplement
\* is in its lookup state and no error is flagged) has a bucket array
\* allocated, and so ends without a fault.
C25_Original ==
  (SupCalled /\ mount_sup_error = 0) => (MSHash # NoHash /\ ~crashed)

\* ------------------------------------------------------------------------
\* Properties of the library context
\* ------------------------------------------------------------------------

\* The calls that add a predicate or change an option.
Mutators ==
  {"lsof_select_pid", "lsof_select_uid", "lsof_select_fd", "lsof_logic_and"}

\* C17: freeze is one-way.  A frozen context stays frozen; lsof_freeze() on a
\* mutable context succeeds and freezes it; lsof_freeze() on a frozen context
\* reports unsupported; and every predicate-adding or option-changing call on
\* a frozen context reports unsupported and leaves the predicate store and
\* the logic mode as they were.
C17_Theorem ==
  [][/\ frozen => frozen'
     /\ (~frozen /\ call'.op = "lsof_freeze")
          => (call'.ret = LSOF_SUCCESS /\ frozen')
     /\ (frozen /\ call'.op = "lsof_freeze")
          => call'.ret = LSOF_ERROR_UNSUPPORTED
     /\ (frozen /\ call'.op \in Mutators)
          => /\ call'.ret = LSOF_ERROR_UNSUPPORTED
             /\ selection' = selection /\ logic_and' = logic_and]_vars

\* A second lsof_freeze() has been refused on a context with a predicate.
C17_Witness ==
  /\ frozen /\ call.op = "lsof_freeze" /\ call.ret = LSOF_ERROR_UNSUPPORTED
  /\ Len(selection) = 1

\* lsof_gather() was given a NULL pointer.
NullArg(c) == c.arg.cat \in {"ctx NULL", "result NULL"}

\* C18: lsof_gather() runs only on a frozen context.  Called with a NULL
\* pointer or on a context that is not frozen it returns the invalid-argument
\* error and gives no result; called on a frozen context it succeeds, each
\* time with the verdicts of the current store on what the backend reports in
\* this pass; and no call changes the frozen flag, the predicate list or the
\* logic mode.
C18_Theorem ==
  [][call'.op = "lsof_gather" =>
       /\ (~frozen \/ NullArg(call'))
            => /\ call'.ret = LSOF_ERROR_INVALID_ARGUMENT
               /\ ~call'.got /\ call'.files = {} /\ ngather' = ngather
       /\ (frozen /\ ~NullArg(call'))
            => /\ call'.ret = LSOF_SUCCESS /\ call'.got
               /\ call'.seen \in Passes
               /\ call'.files = {f \in call'.seen :
                                   Selected(selection, logic_and, f)}
               /\ ngather' = ngather + 1
       /\ frozen' = frozen /\ selection' = selection
       /\ logic_and' = logic_and]_vars

\* After two passes on a frozen context with a predicate, a call with a NULL
\* result pointer has been refused.
C18_Witness ==
  /\ frozen /\ ngather = MaxGathers /\ selection # <<>>
  /\ call.op = "lsof_gather" /\ call.arg.cat = "result NULL"
  /\ call.ret = LSOF_ERROR_INVALID_ARGUMENT /\ ~call.got

\* The call registers an FD predicate while the store holds an FD predicate
\* of the other polarity.
MixingCall(c, store) == c.op = "lsof_select_fd" /\ FdMixed(store, c.arg)

\* C19: FD inclusions and exclusions are not mixed.  A lsof_select_fd() call
\* of one polarity on a context whose store holds an FD predicate of the
\* other polarity is rejected in either order: the store is left as it was,
\* and on a mutable context the return is the invalid-argument error.
C19_Theorem ==
  [][MixingCall(call', selection) =>
       /\ selection' = selection
       /\ call'.ret # LSOF_SUCCESS
       /\ ~frozen => call'.ret = LSOF_ERROR_INVALID_ARGUMENT]_vars

\* An FD exclusion has been refused after an FD inclusion was registered.
C19_Witness ==
  /\ ~frozen /\ call.op = "lsof_select_fd" /\ call.arg.exclude
  /\ call.ret = LSOF_ERROR_INVALID_ARGUMENT
  /\ selection = <<Pred("fd", 1, -1, FALSE)>>

\* An FD inclusion has been refused after an FD exclusion was registered.
C19_Witness_opposite ==
  /\ ~frozen /\ call.op = "lsof_select_fd" /\ ~call.arg.exclude
  /\ call.ret = LSOF_ERROR_INVALID_ARGUMENT
  /\ selection = <<Pred("fd", 1, -1, TRUE)>>

\* The enabled categories of the store that have an inclusion predicate
\* matching the file.
MatchedCats(store, f) ==
  {c \in EnabledCats(store) : InclMatch(store, c, f)}

\* A pass has been made on a frozen context.
Gathered == frozen /\ call.op = "lsof_gather" /\ call.got

\* C20: the logic mode.  For every file of a pass: with two categories
\* enabled and no exclusion matching, a file that matches a predicate of one
\* category and none of the other is in the result in the default OR mode and
\* is not in it in AND mode; and in AND mode a file of the result matches at
\* least one predicate of every enabled category.
C20_Theorem ==
  Gathered =>
    \A f \in call.seen :
       /\ ( /\ Cardinality(EnabledCats(selection)) = 2
            /\ ~ExclMatch(selection, f)
            /\ Cardinality(MatchedCats(selection, f)) = 1 )
          => (f \in call.files <=> ~logic_and)
       /\ (logic_and /\ f \in call.files)
          => \A c \in EnabledCats(selection) :
                \E i \in 1..Len(selection) :
                   selection[i].cat = c /\ Matches(selection[i], f)

\* In AND mode, with a pid and a uid predicate, the file of pid 1 and uid 1
\* was seen and left out while the file of pid 1 and uid 0 was selected.
C20_Witness ==
  /\ Gathered /\ logic_and
  /\ selection = <<Pred("pid", 1, 1, FALSE), Pred("uid", 0, 0, FALSE)>>
  /\ File(1, 1, 3) \in call.seen /\ File(1, 1, 3) \notin call.files
  /\ File(1, 0, 0) \in call.files

\* In the default OR mode the same store selects the file of pid 1 and uid 1.
C20_Witness_or ==
  /\ Gathered /\ ~logic_and
  /\ selection = <<Pred("pid", 1, 1, FALSE), Pred("uid", 0, 0, FALSE)>>
  /\ File(1, 1, 3) \in call.files

\* ------------------------------------------------------------------------
\* Properties of the port range
\* ------------------------------------------------------------------------

\* C21: a port range matches a port exactly when the port is not below a
\* lower bound other than -1 and not above an upper bound other than -1: the
\* range -1, -1 matches every port and the range 80, 80 matches port 80 and
\* no other port.
C21_Theorem ==
  pc = "portdone" =>
    /\ inet.match <=> ( /\ inet.port_lo # -1 => inet.port_lo <= inet.port
                        /\ inet.port_hi # -1 => inet.port <= inet.port_hi )
    /\ (inet.port_lo = -1 /\ inet.port_hi = -1) => inet.match
    /\ (inet.port_lo = 80 /\ inet.port_hi = 80)
         => (inet.match <=> inet.port = 80)

\* Port 65535 has been matched by the range -1, -1.
C21_Witness ==
  /\ pc = "portdone" /\ inet.port_lo = -1 /\ inet.port_hi = -1
  /\ inet.port = 65535 /\ inet.match

\* Port 81 has been compared with the range 80, 80 and does not match.
C21_Witness_80 ==
  /\ pc = "portdone" /\ inet.port_lo = 80 /\ inet.port_hi = 80
  /\ inet.port = 81 /\ ~inet.match

\* ------------------------------------------------------------------------
\* Properties of printiproto()
\* ------------------------------------------------------------------------

\* 10 to the power n.
RECURSIVE Pow10(_)
Pow10(n) == IF n = 0 THEN 1 ELSE 10 * Pow10(n - 1)

\* The number a sequence of decimal digits denotes.
RECURSIVE DecValue(_)
DecValue(digits) ==
  IF digits = <<>> THEN 0
  ELSE 10 * DecValue(SubSeq(digits, 1, Len(digits) - 1))
       + (digits[Len(digits)] - Ord["0"])

\* text is the decimal numeral of n: digits only, no leading zero.
IsDecimalOf(text, n) ==
  /\ Len(text) >= 1
  /\ \A i \in 1..Len(text) : text[i] \in Ord["0"]..Ord["9"]
  /\ Len(text) > 1 => text[1] # Ord["0"]
  /\ DecValue(text) = n

\* C29: after printiproto(p), p >= 0: a protocol with a case label has its
\* name in Lf->iproto; one without has the decimal numeral of p and '?'
\* when p < 10^(IPROTOL-2), else '*', the decimal numeral of
\* p mod 10^(IPROTOL-3) and '?'; the text has IPROTOL - 1 characters at
\* most.
C29_Theorem ==
  last.op = "printiproto" =>
    /\ Len(proto.iproto) <= IPROTOL - 1
    /\ \A n \in ProtoNames : n[1] = proto.p => proto.iproto = n[2]
    /\ (\A n \in ProtoNames : n[1] # proto.p) =>
         IF proto.p < Pow10(IPROTOL - 2)
           THEN /\ Len(proto.iproto) >= 2
                /\ proto.iproto[Len(proto.iproto)] = Ord["?"]
                /\ IsDecimalOf(SubSeq(proto.iproto, 1, Len(proto.iproto) - 1),
                               proto.p)
           ELSE /\ Len(proto.iproto) >= 3
                /\ proto.iproto[1] = Ord["*"]
                /\ proto.iproto[Len(proto.iproto)] = Ord["?"]
                /\ IsDecimalOf(SubSeq(proto.iproto, 2, Len(proto.iproto) - 1),
                               proto.p % Pow10(IPROTOL - 3))

\* C29: a number of IPROTOL - 1 digits was written with '*' and its low
\* digits, in IPROTOL - 1 characters.
C29_Witness ==
  /\ last.op = "printiproto"
  /\ proto.p = 12 * Pow10(IPROTOL - 2) + 34
  /\ proto.iproto = Str(<<"*", "3", "4", "?">>)

\* C29: a protocol with a name was written after one without.
C29_Witness_name ==
  /\ last.op = "printiproto" /\ proto.m > 0
  /\ proto.p = 6 /\ proto.iproto = Str(<<"T", "C", "P">>)

====
